---------------------------- MODULE Spec2Model ----------------------------
(* Model of generate_test_samples.py: TestSampleGenerator.                 *)
(*                                                                         *)
(*   Spec       the samples directory and the control flow of              *)
(*              generate_samples / verify_samples                          *)
(*   SpecStamp  create_synthetic_stamp (geometry of the stamp graphic)     *)
(*   SpecBlend  the has_stamp branch of generate_samples on pixel arrays   *)
EXTENDS Integers, Sequences, FiniteSets, TLC

VARIABLES
    dir,          \* names of the entries of self.samples_dir
    pc,           \* "Idle", "loop" (head of the for loop), "save" (before imwrite), "Done", "Failed"
    num_samples,  \* argument of the running / last generate_samples call
    i,            \* loop variable of generate_samples (0-based, as in the code)
    has_stamp,    \* the coin flip of the current iteration
    flips,        \* history: the coin flips of this call, one per iteration started
    saved,        \* history: the file names imwrite wrote in this call, in order
    dirBefore,    \* history: dir when the call began
    failk,        \* history: 1-based iteration of the first failure of this call, 0 if none
    calls,        \* history: number of generate_samples calls made
    okmax,        \* history: largest num_samples of the calls so far
    allOk,        \* history: no call so far has raised
    dir0,         \* history: dir right after construction
    vstate,       \* outcome of verify_samples since the last call: "none", "returned", "raised"
    ret,          \* the value verify_samples returned (when vstate = "returned")
    tally,        \* the three counts verify_samples logged
    \* create_synthetic_stamp
    s_pc,         \* "start", "canvas", "x", "y", "text", "returned", "raised"
    circle,       \* the bounding box handed to draw.ellipse
    num_glyphs,   \* the value of random.randint(3, 6)
    drawn,        \* number of draw.text calls made
    glyph,        \* the anchor (x, y) of the glyph being placed
    \* the has_stamp branch of generate_samples, on pixel arrays
    b_pc,         \* "start", "bg", "stamp", "placed", "blended", "written", "raised"
    background,   \* history: the array create_background_image returned
    base_image,   \* the array base_image of the code (blended in place)
    stamp,        \* the array create_synthetic_stamp returned
    x,            \* column offset of the stamp
    y,            \* row offset of the stamp
    tie,          \* how the cv2.addWeighted call rounded an exact half (1: up, 0: down)
    out_shape     \* shape of the array handed to cv2.imwrite

fileVars == <<dir, pc, num_samples, i, has_stamp, flips, saved, dirBefore,
              failk, calls, okmax, allOk, dir0, vstate, ret, tally>>

stampVars == <<s_pc, circle, num_glyphs, drawn, glyph>>

blendVars == <<b_pc, background, base_image, stamp, x, y, tie, out_shape>>

vars == <<fileVars, stampVars, blendVars>>

-----------------------------------------------------------------------------
(* Bounds *)
MaxSamples == 2
MaxCalls == 2
\* side of the pixel arrays carried by SpecBlend (the code's arrays are
\* size[0] x size[1]; background and stamp always have the same shape)
PixSide == 2

-----------------------------------------------------------------------------
(* File names are strings, modelled as sequences of characters. *)

stamp_ == <<"s", "t", "a", "m", "p", "_">>
no_stamp_ == <<"n", "o", "_">> \o stamp_
jpg == <<".", "j", "p", "g">>

\* an entry of the directory that generate_samples never writes
other == <<"n", "o", "t", "e", "s">>

Digits == <<"0", "1", "2", "3", "4", "5", "6", "7", "8", "9">>

\* Python's decimal formatting of a non-negative integer inside an f-string
RECURSIVE str(_)
str(k) == IF k < 10 THEN <<Digits[k + 1]>>
          ELSE str(k \div 10) \o <<Digits[(k % 10) + 1]>>

\* f"stamp_{i+1}.jpg" / f"no_stamp_{i+1}.jpg"
filename(hs, k) == (IF hs THEN stamp_ ELSE no_stamp_) \o str(k + 1) \o jpg

\* str.startswith
startswith(f, prefix) ==
    /\ Len(f) >= Len(prefix)
    /\ SubSeq(f, 1, Len(prefix)) = prefix

-----------------------------------------------------------------------------
(* __init__: os.makedirs(exist_ok=True) keeps whatever the directory holds *)

InitFiles ==
    /\ dir \in {{}, {other}}
    /\ dir0 = dir
    /\ pc = "Idle"
    /\ num_samples = 0
    /\ i = 0
    /\ has_stamp = FALSE
    /\ flips = <<>>
    /\ saved = <<>>
    /\ dirBefore = dir
    /\ failk = 0
    /\ calls = 0
    /\ okmax = 0
    /\ allOk = TRUE
    /\ vstate = "none"
    /\ ret = FALSE
    /\ tally = [total |-> 0, withStamp |-> 0, withoutStamp |-> 0]

-----------------------------------------------------------------------------
(* generate_samples *)

\* entry of generate_samples(n)
generate_samples(n) ==
    /\ pc \in {"Idle", "Done", "Failed"}
    /\ calls < MaxCalls
    /\ num_samples' = n
    /\ i' = 0
    /\ pc' = "loop"
    /\ flips' = <<>>
    /\ saved' = <<>>
    /\ dirBefore' = dir
    /\ failk' = 0
    /\ calls' = calls + 1
    /\ okmax' = IF n > okmax THEN n ELSE okmax
    /\ vstate' = "none"
    /\ UNCHANGED <<dir, has_stamp, allOk, dir0, ret, tally,
                   stampVars, blendVars>>

\* lines 72-95: the coin flip and the construction of the image succeed
Construct ==
    /\ pc = "loop"
    /\ i < num_samples
    /\ \E hs \in BOOLEAN :
          /\ has_stamp' = hs
          /\ flips' = Append(flips, hs)
    /\ pc' = "save"
    /\ UNCHANGED <<dir, num_samples, i, saved, dirBefore, failk, calls, okmax,
                   allOk, dir0, vstate, ret, tally,
                   stampVars, blendVars>>

\* mutant: the failure handler removes what the call has written so far
ConstructRaise_Rollback ==
    /\ pc = "loop"
    /\ i < num_samples
    /\ \E hs \in BOOLEAN :
          /\ has_stamp' = hs
          /\ flips' = Append(flips, hs)
    /\ pc' = "Failed"
    /\ dir' = dirBefore
    /\ failk' = IF failk = 0 THEN i + 1 ELSE failk
    /\ allOk' = FALSE
    /\ UNCHANGED <<num_samples, i, saved, dirBefore, calls, okmax,
                   dir0, vstate, ret, tally,
                   stampVars, blendVars>>

\* lines 78-94 raise (create_background_image, create_synthetic_stamp or the
\* blend); lines 105-107 log and re-raise
ConstructRaise ==
    /\ pc = "loop"
    /\ i < num_samples
    /\ \E hs \in BOOLEAN :
          /\ has_stamp' = hs
          /\ flips' = Append(flips, hs)
    /\ pc' = "Failed"
    /\ failk' = IF failk = 0 THEN i + 1 ELSE failk
    /\ allOk' = FALSE
    /\ UNCHANGED <<dir, num_samples, i, saved, dirBefore, calls, okmax,
                   dir0, vstate, ret, tally,
                   stampVars, blendVars>>

\* line 99: cv2.imwrite writes the file (creating or overwriting it)
SaveOk ==
    /\ pc = "save"
    /\ dir' = dir \cup {filename(has_stamp, i)}
    /\ saved' = Append(saved, filename(has_stamp, i))
    /\ i' = i + 1
    /\ pc' = "loop"
    /\ UNCHANGED <<num_samples, has_stamp, flips, dirBefore, failk, calls,
                   okmax, allOk, dir0, vstate, ret, tally,
                   stampVars, blendVars>>

\* mutant: a write that returned False is tried again in a new pass of the
\* same iteration
SaveFalse_Retry ==
    /\ pc = "save"
    /\ \E leaves \in BOOLEAN :
          dir' = IF leaves THEN dir \cup {filename(has_stamp, i)} ELSE dir
    /\ failk' = IF failk = 0 THEN i + 1 ELSE failk
    /\ flips' = SubSeq(flips, 1, Len(flips) - 1)
    /\ pc' = "loop"
    /\ UNCHANGED <<num_samples, i, has_stamp, saved, dirBefore, calls,
                   okmax, allOk, dir0, vstate, ret, tally,
                   stampVars, blendVars>>

\* line 99: cv2.imwrite cannot write the file and returns False; the code
\* discards the return value and goes on.  The failed write may or may not
\* leave a (truncated) file of that name behind.
SaveFalse ==
    /\ pc = "save"
    /\ \E leaves \in BOOLEAN :
          dir' = IF leaves THEN dir \cup {filename(has_stamp, i)} ELSE dir
    /\ failk' = IF failk = 0 THEN i + 1 ELSE failk
    /\ i' = i + 1
    /\ pc' = "loop"
    /\ UNCHANGED <<num_samples, has_stamp, flips, saved, dirBefore, calls,
                   okmax, allOk, dir0, vstate, ret, tally,
                   stampVars, blendVars>>

\* line 99: cv2.cvtColor or cv2.imwrite raises before anything is written;
\* lines 105-107 log and re-raise
SaveRaise ==
    /\ pc = "save"
    /\ failk' = IF failk = 0 THEN i + 1 ELSE failk
    /\ pc' = "Failed"
    /\ allOk' = FALSE
    /\ UNCHANGED <<dir, num_samples, i, has_stamp, flips, saved, dirBefore,
                   calls, okmax, dir0, vstate, ret, tally,
                   stampVars, blendVars>>

\* line 103: range(num_samples) is exhausted, success is logged, the call returns
LoopExit ==
    /\ pc = "loop"
    /\ i >= num_samples
    /\ pc' = "Done"
    /\ UNCHANGED <<dir, num_samples, i, has_stamp, flips, saved, dirBefore,
                   failk, calls, okmax, allOk, dir0, vstate, ret, tally,
                   stampVars, blendVars>>

-----------------------------------------------------------------------------
(* verify_samples *)

stamp_files(files) == {f \in files : startswith(f, stamp_)}
no_stamp_files(files) == {f \in files : startswith(f, no_stamp_)}

\* line 121
verify_result(files) == Cardinality(files) > 0

verify_samples ==
    /\ pc \in {"Idle", "Done", "Failed"}
    /\ vstate' = "returned"
    /\ ret' = verify_result(dir)
    /\ tally' = [total |-> Cardinality(dir),
                 withStamp |-> Cardinality(stamp_files(dir)),
                 withoutStamp |-> Cardinality(no_stamp_files(dir))]
    /\ UNCHANGED <<dir, pc, num_samples, i, has_stamp, flips, saved, dirBefore,
                   failk, calls, okmax, allOk, dir0,
                   stampVars, blendVars>>

\* os.listdir raises; lines 123-125 log and re-raise
verify_samplesRaise ==
    /\ pc \in {"Idle", "Done", "Failed"}
    /\ vstate # "raised"
    /\ vstate' = "raised"
    /\ UNCHANGED <<dir, pc, num_samples, i, has_stamp, flips, saved, dirBefore,
                   failk, calls, okmax, allOk, dir0, ret, tally,
                   stampVars, blendVars>>

-----------------------------------------------------------------------------
(* create_synthetic_stamp(size=(128, 128)) *)

\* the default of the size parameter (width, height); no caller passes another
size == <<128, 128>>
margin == 10

InitStamp ==
    /\ s_pc = "start"
    /\ circle = <<0, 0, 0, 0>>
    /\ num_glyphs = 0
    /\ drawn = 0
    /\ glyph = [x |-> 0, y |-> 0]

\* lines 24-25: the white canvas
StampCanvas ==
    /\ s_pc = "start"
    /\ s_pc' = "canvas"
    /\ UNCHANGED <<circle, num_glyphs, drawn, glyph,
                   fileVars, blendVars>>

\* lines 28-33: the outlined circle, then the number of glyphs is drawn once
\* for range(random.randint(3, 6))
StampEllipse ==
    /\ s_pc = "canvas"
    /\ circle' = <<margin, margin, size[1] - margin, size[2] - margin>>
    /\ \E g \in 3..6 : num_glyphs' = g
    /\ drawn' = 0
    /\ s_pc' = "x"
    /\ UNCHANGED <<glyph, fileVars, blendVars>>

\* mutant: the glyph range uses the circle's margin instead of twice the margin
StampGlyphX_Margin ==
    /\ s_pc = "x"
    /\ drawn < num_glyphs
    /\ \E gx \in margin..(size[1] - margin) :
          glyph' = [glyph EXCEPT !.x = gx]
    /\ s_pc' = "y"
    /\ UNCHANGED <<circle, num_glyphs, drawn,
                   fileVars, blendVars>>

\* line 34
StampGlyphX ==
    /\ s_pc = "x"
    /\ drawn < num_glyphs
    /\ \E gx \in (margin * 2)..(size[1] - margin * 2) :
          glyph' = [glyph EXCEPT !.x = gx]
    /\ s_pc' = "y"
    /\ UNCHANGED <<circle, num_glyphs, drawn,
                   fileVars, blendVars>>

\* line 35
StampGlyphY ==
    /\ s_pc = "y"
    /\ \E gy \in (margin * 2)..(size[2] - margin * 2) :
          glyph' = [glyph EXCEPT !.y = gy]
    /\ s_pc' = "text"
    /\ UNCHANGED <<circle, num_glyphs, drawn,
                   fileVars, blendVars>>

\* lines 36-37: draw.text at (x, y); x and y are dead until they are drawn
\* again, so the model forgets them
StampText ==
    /\ s_pc = "text"
    /\ drawn' = drawn + 1
    /\ glyph' = [x |-> 0, y |-> 0]
    /\ s_pc' = "x"
    /\ UNCHANGED <<circle, num_glyphs,
                   fileVars, blendVars>>

\* line 40
StampReturn ==
    /\ s_pc = "x"
    /\ drawn >= num_glyphs
    /\ s_pc' = "returned"
    /\ UNCHANGED <<circle, num_glyphs, drawn, glyph,
                   fileVars, blendVars>>

\* lines 42-44: a rendering call raises; the error is logged and re-raised
StampRaise ==
    /\ s_pc \in {"start", "canvas", "text"}
    /\ s_pc' = "raised"
    /\ UNCHANGED <<circle, num_glyphs, drawn, glyph,
                   fileVars, blendVars>>

NextStamp ==
    \/ StampCanvas
    \/ StampEllipse
    \/ StampGlyphX
    \/ StampGlyphY
    \/ StampText
    \/ StampReturn
    \/ StampRaise

-----------------------------------------------------------------------------
(* generate_samples, has_stamp branch (lines 78-89, 99), on pixel arrays.  *)
(* An array is a record of its shape (rows, columns) and one channel plane;*)
(* every operation of the branch treats the three channels alike.          *)

\* The arrays of the code are size[0] x size[1].  The model carries them at
\* two scaled-down shapes: one cell, with every value the code can produce,
\* and PixSide x PixSide, with the extreme values only.
Shapes == {<<1, 1>>, <<PixSide, PixSide>>}

\* values create_background_image can put in a channel: a line colour
\* (random.randint(100, 200)) or noise (np.random.randint(200, 255))
BgVals(shape) == IF shape = <<1, 1>> THEN 100..254 ELSE {100, 254}

\* values of the stamp array: 'black' drawing on a 'white' canvas, and the
\* greys of anti-aliased glyph edges in between
StVals(shape) == IF shape = <<1, 1>> THEN 0..255 ELSE {0, 255}

Cells(shape) == (0..(shape[1] - 1)) \X (0..(shape[2] - 1))

Arrays(shape, vals) == {[shape |-> shape, px |-> f] : f \in [Cells(shape) -> vals]}

NoArray == [shape |-> <<0, 0>>, px |-> <<>>]

InitBlend ==
    /\ b_pc = "start"
    /\ background = NoArray
    /\ base_image = NoArray
    /\ stamp = NoArray
    /\ x = 0
    /\ y = 0
    /\ tie = 0
    /\ out_shape = <<0, 0>>

\* Python's random.randint(a, b): an integer of a..b (the set is empty, and
\* the call raises, when b < a)
randint(a, b) == a..b

\* line 78: base_image = self.create_background_image()
BlendBackground ==
    /\ b_pc = "start"
    /\ \E shape \in Shapes :
          \E img \in Arrays(shape, BgVals(shape)) :
              /\ base_image' = img
              /\ background' = img
    /\ b_pc' = "bg"
    /\ UNCHANGED <<stamp, x, y, tie, out_shape,
                   fileVars, stampVars>>

\* line 79: stamp = self.create_synthetic_stamp(); both create_ functions
\* are called with their default size, so the shapes agree
BlendStamp ==
    /\ b_pc = "bg"
    /\ stamp' \in Arrays(base_image.shape, StVals(base_image.shape))
    /\ b_pc' = "stamp"
    /\ UNCHANGED <<background, base_image, x, y, tie, out_shape,
                   fileVars, stampVars>>

\* mutant: the offset range is the background's extent, the stamp's is not
\* subtracted
Place_NoSubtract ==
    /\ b_pc = "stamp"
    /\ x' \in randint(0, base_image.shape[2])
    /\ y' \in randint(0, base_image.shape[1])
    /\ b_pc' = "placed"
    /\ UNCHANGED <<background, base_image, stamp, tie, out_shape,
                   fileVars, stampVars>>

\* lines 82-83
Place ==
    /\ b_pc = "stamp"
    /\ x' \in randint(0, base_image.shape[2] - stamp.shape[2])
    /\ y' \in randint(0, base_image.shape[1] - stamp.shape[1])
    /\ b_pc' = "placed"
    /\ UNCHANGED <<background, base_image, stamp, tie, out_shape,
                   fileVars, stampVars>>

\* the fixed blend weight, in tenths (alpha = 0.7, 1 - alpha = 0.3)
alpha == 7

\* mutant: the two weights are exchanged
addWeighted_Swapped(src1, src2, t) ==
    LET sum == alpha * src1 + (10 - alpha) * src2
        q == sum \div 10
        r == sum % 10
        v == IF r > 5 \/ (r = 5 /\ t = 1) THEN q + 1 ELSE q
    IN  IF v < 0 THEN 0 ELSE IF v > 255 THEN 255 ELSE v

\* cv2.addWeighted(src1, 1-alpha, src2, alpha, 0) on one uint8 value: the
\* weighted sum is rounded to the nearest integer and saturated to 0..255;
\* an exact half goes up or down with t
addWeighted(src1, src2, t) ==
    LET sum == (10 - alpha) * src1 + alpha * src2
        q == sum \div 10
        r == sum % 10
        v == IF r > 5 \/ (r = 5 /\ t = 1) THEN q + 1 ELSE q
    IN  IF v < 0 THEN 0 ELSE IF v > 255 THEN 255 ELSE v

\* numpy's a[y:y+h, x:x+w]: the cells of the slice, clipped to the array
SliceCells(a, r0, h, c0, w) ==
    {p \in Cells(a.shape) : r0 <= p[1] /\ p[1] < r0 + h /\ c0 <= p[2] /\ p[2] < c0 + w}

SliceShape(a, r0, h, c0, w) ==
    <<Cardinality({p[1] : p \in SliceCells(a, r0, h, c0, w)}),
      Cardinality({p[2] : p \in SliceCells(a, r0, h, c0, w)})>>

\* lines 86-89: roi, blended, and the assignment back into base_image;
\* cv2.addWeighted raises when roi and stamp differ in shape
Blend ==
    /\ b_pc = "placed"
    /\ tie' \in {0, 1}
    /\ LET h == stamp.shape[1]
           w == stamp.shape[2]
           roi == SliceCells(base_image, y, h, x, w)
       IN  IF SliceShape(base_image, y, h, x, w) = stamp.shape
           THEN /\ base_image' =
                      [base_image EXCEPT !.px =
                          [p \in Cells(base_image.shape) |->
                              IF p \in roi
                              THEN addWeighted(base_image.px[p],
                                               stamp.px[<<p[1] - y, p[2] - x>>], tie')
                              ELSE base_image.px[p]]]
                /\ b_pc' = "blended"
           ELSE /\ base_image' = base_image
                /\ b_pc' = "raised"
    /\ UNCHANGED <<background, stamp, x, y, out_shape,
                   fileVars, stampVars>>

\* line 99: the array handed to cv2.imwrite (cvtColor keeps the shape)
Write ==
    /\ b_pc = "blended"
    /\ out_shape' = base_image.shape
    /\ b_pc' = "written"
    /\ UNCHANGED <<background, base_image, stamp, x, y, tie,
                   fileVars, stampVars>>

NextBlend ==
    \/ BlendBackground
    \/ BlendStamp
    \/ Place
    \/ Blend
    \/ Write

-----------------------------------------------------------------------------
Init == InitFiles /\ InitStamp /\ InitBlend

Next ==
    \/ \E n \in 0..MaxSamples : generate_samples(n)
    \/ Construct
    \/ ConstructRaise
    \/ SaveOk
    \/ SaveFalse
    \/ SaveRaise
    \/ LoopExit
    \/ verify_samples
    \/ verify_samplesRaise

Spec == Init /\ [][Next]_vars

\* The steps inside a generate_samples call.  The call is synchronous and
\* single-threaded, so once entered it keeps running until it returns or raises.
InCall == Construct \/ ConstructRaise \/ SaveOk \/ SaveFalse \/ SaveRaise \/ LoopExit

FairSpec == Spec /\ WF_vars(InCall)

SpecStamp == Init /\ [][NextStamp]_vars

SpecBlend == Init /\ [][NextBlend]_vars

-----------------------------------------------------------------------------
(* Vocabulary of the properties *)

Generating == pc \in {"loop", "save"}

Range(seq) == {seq[k] : k \in 1..Len(seq)}

\* the sample file names of the indices 1..n
SampleNames(n) == {filename(hs, k - 1) : hs \in BOOLEAN, k \in 1..n}

\* the entries of a directory listing that carry one of the two sample prefixes
samples(files) == {f \in files : startswith(f, stamp_) \/ startswith(f, no_stamp_)}

DigitVal(c) == CHOOSE d \in 0..9 : Digits[d + 1] = c

RECURSIVE int(_)
int(ds) == IF Len(ds) = 0 THEN 0
           ELSE 10 * int(SubSeq(ds, 1, Len(ds) - 1)) + DigitVal(ds[Len(ds)])

\* the index written in a sample file name
IndexOf(f) ==
    LET pre == IF startswith(f, no_stamp_) THEN Len(no_stamp_) ELSE Len(stamp_)
    IN  int(SubSeq(f, pre + 1, Len(f) - Len(jpg)))

Count(seq, v) == Cardinality({k \in 1..Len(seq) : seq[k] = v})

HasExactlyOne(files, k) ==
    (filename(TRUE, k - 1) \in files) # (filename(FALSE, k - 1) \in files)

HasSome(files, k) ==
    filename(TRUE, k - 1) \in files \/ filename(FALSE, k - 1) \in files

-----------------------------------------------------------------------------
\* C1: after generate_samples(n), n >= 1, has returned normally, every index
\* 1..n has exactly one of stamp_{i}.jpg / no_stamp_{i}.jpg in the directory
\* and the directory holds exactly n sample files.
C1_ExactlyOnePerIndex ==
    (pc = "Done" /\ num_samples >= 1) =>
        /\ \A k \in 1..num_samples : HasExactlyOne(dir, k)
        /\ Cardinality(samples(dir)) = num_samples

\* C2: verify_samples returns true exactly when the directory has an entry,
\* and it returns true after every generate_samples(n), n >= 1, that returned
\* normally.
C2_VerifyTrueAfterGenerate ==
    /\ vstate = "returned" => (ret <=> dir # {})
    /\ (vstate = "returned" /\ pc = "Done" /\ num_samples >= 1) => ret

\* C3: once an iteration k has failed (construction or file write), the call
\* does not report success, and no sample with an index above k is built or
\* written.
C3_FailureAborts ==
    failk # 0 =>
        /\ pc # "Done"
        /\ Len(flips) <= failk
        /\ \A f \in Range(saved) : IndexOf(f) <= failk

\* C4: after generate_samples(n) on an initially empty directory the tally of
\* verify_samples is total = n, withStamp = number of true flips,
\* withoutStamp = number of false flips, and the two classes add up to total.
C4_TallyMatchesFlips ==
    (vstate = "returned" /\ pc = "Done" /\ dirBefore = {}) =>
        /\ tally.total = num_samples
        /\ tally.withStamp = Count(flips, TRUE)
        /\ tally.withoutStamp = Count(flips, FALSE)
        /\ tally.withStamp + tally.withoutStamp = tally.total
        /\ stamp_files(dir) \cap no_stamp_files(dir) = {}

\* C5: in a stamped sample every value inside the placement rectangle is
\* 0.3*background + 0.7*stamp rounded to an integer, hence between the two
\* source values and within 0..255, and every value outside the rectangle is
\* the background value unchanged.
C5_ConvexBlend ==
    b_pc \in {"blended", "written"} =>
        \A p \in Cells(base_image.shape) :
            LET v == base_image.px[p]
                b == background.px[p]
                inside == /\ y <= p[1] /\ p[1] < y + stamp.shape[1]
                          /\ x <= p[2] /\ p[2] < x + stamp.shape[2]
            IN  IF inside
                THEN LET s == stamp.px[<<p[1] - y, p[2] - x>>]
                         lo == IF b < s THEN b ELSE s
                         hi == IF b < s THEN s ELSE b
                     IN  /\ 10 * v - (3 * b + 7 * s) \in -5..5
                         /\ lo <= v /\ v <= hi
                         /\ v \in 0..255
                ELSE v = b

\* a blend of a whole PixSide x PixSide array that rounded an exact half up
\* in one cell and darkened another cell under a black stamp pixel
C5_Witness ==
    /\ b_pc = "blended"
    /\ base_image.shape = <<PixSide, PixSide>>
    /\ \E p \in Cells(base_image.shape) :
          /\ (3 * background.px[p] + 7 * stamp.px[p]) % 10 = 5
          /\ 10 * base_image.px[p] = 3 * background.px[p] + 7 * stamp.px[p] + 5
    /\ \E p \in Cells(base_image.shape) :
          /\ stamp.px[p] = 0
          /\ base_image.px[p] < background.px[p]

\* C6: the circle's bounding box [margin, size-margin] lies strictly inside
\* the canvas on all sides, between 3 and 6 glyphs are drawn, and every glyph
\* anchor has 2*margin <= x <= width-2*margin and 2*margin <= y <= height-2*margin.
C6_StampGeometry ==
    /\ s_pc \in {"x", "y", "text", "returned"} =>
          /\ circle = <<margin, margin, size[1] - margin, size[2] - margin>>
          /\ 0 < circle[1] /\ circle[1] < circle[3] /\ circle[3] < size[1] - 1
          /\ 0 < circle[2] /\ circle[2] < circle[4] /\ circle[4] < size[2] - 1
          /\ num_glyphs \in 3..6
          /\ drawn <= num_glyphs
    /\ s_pc = "text" =>
          /\ 2 * margin <= glyph.x /\ glyph.x <= size[1] - 2 * margin
          /\ 2 * margin <= glyph.y /\ glyph.y <= size[2] - 2 * margin
    /\ s_pc = "returned" => (drawn = num_glyphs /\ drawn \in 3..6)

\* the sixth glyph is about to be drawn in the far corner of the allowed range
C6_Witness ==
    /\ s_pc = "text"
    /\ drawn = 5
    /\ glyph.x = size[1] - 2 * margin
    /\ glyph.y = size[2] - 2 * margin

\* C7: the placement offset satisfies 0 <= x <= bgWidth - stampWidth and
\* 0 <= y <= bgHeight - stampHeight, the stamp rectangle lies within the
\* background, and the written image has the background's dimensions.
C7_PlacementFits ==
    /\ b_pc \in {"placed", "blended", "written"} =>
          /\ 0 <= x /\ x <= background.shape[2] - stamp.shape[2]
          /\ 0 <= y /\ y <= background.shape[1] - stamp.shape[1]
          /\ \A p \in Cells(stamp.shape) :
                <<p[1] + y, p[2] + x>> \in Cells(background.shape)
    /\ b_pc # "raised"
    /\ b_pc = "written" =>
          /\ out_shape = background.shape
          /\ out_shape \in Shapes

C7_Witness ==
    /\ b_pc = "written"
    /\ x = 0 /\ y = 0
    /\ out_shape = <<PixSide, PixSide>>
    /\ stamp.shape = <<PixSide, PixSide>>
    /\ base_image # background

\* C8 (as stated): a failed call leaves the directory as it was before the
\* call, and no call ends with only a proper, non-empty part of its batch
\* written (that a successful call leaves all n files is the statement of C1).
C8_AtomicBatch ==
    /\ pc = "Failed" => dir = dirBefore
    /\ pc \in {"Done", "Failed"} => Len(saved) \in {0, num_samples}

\* C8 (amended): a call rolls nothing back.  When it raises in iteration k,
\* every entry the directory held before the call is still there, every file
\* the call wrote is still there and has an index below k, and the only names
\* the call added are sample names of the indices 1..k.  When it returns
\* normally, the entries from before the call and the files it wrote are
\* there, and the names it added are sample names of the indices 1..n.
C8_FailFastNoRollback ==
    /\ pc = "Failed" =>
          /\ dirBefore \subseteq dir
          /\ Range(saved) \subseteq dir
          /\ \A f \in Range(saved) : IndexOf(f) < i + 1
          /\ (dir \ dirBefore) \subseteq SampleNames(i + 1)
    /\ pc = "Done" =>
          /\ dirBefore \subseteq dir
          /\ Range(saved) \subseteq dir
          /\ (dir \ dirBefore) \subseteq SampleNames(num_samples)

\* a call of n = 2 that wrote sample 1 and raised in iteration 2
C8_Witness ==
    /\ pc = "Failed"
    /\ num_samples = 2
    /\ i + 1 = 2
    /\ Len(saved) = 1
    /\ Range(saved) \cap dirBefore = {}
    /\ dir # dirBefore

\* C9 (as stated): a call never ends in another state than Done, and when it
\* ends it has written the n files of the indices 1, 2, ..., n in that order.
C9_AlwaysDoneAllWritten ==
    /\ pc \in {"Idle", "loop", "save", "Done"}
    /\ pc = "Done" =>
          saved = [k \in 1..num_samples |-> filename(flips[k], k - 1)]

C9_Inv ==
    /\ Len(flips) <= num_samples
    /\ pc \in {"Idle", "loop", "Done"} => Len(flips) = i
    /\ pc \in {"save", "Failed"} => Len(flips) = i + 1
    /\ pc = "Done" => i = num_samples
    /\ Len(saved) <= i
    /\ \A k \in 1..Len(saved) : IndexOf(saved[k]) \in 1..num_samples
    /\ \A k \in 1..Len(saved) : k > 1 => IndexOf(saved[k - 1]) < IndexOf(saved[k])
    /\ pc = "save" => \A f \in Range(saved) : IndexOf(f) < i + 1

C9_Step ==
    /\ pc = "Idle" => pc' \in {"Idle", "loop"}
    /\ Generating => pc' \in {"loop", "save", "Done", "Failed"}
    /\ (Generating /\ pc' \in {"loop", "save"}) => (i' >= i /\ Len(flips') >= Len(flips))
    /\ (pc = "save" /\ pc' = "loop") => i' = i + 1

\* C9 (amended): a call goes Idle -> Generating -> Done or Failed and always
\* ends: it starts at most n iterations (exactly n when it ends Done), each
\* index at most once, the write of sample i ends before sample i+1 is
\* started, and the files it writes have strictly increasing indices in 1..n.
C9_TerminatesInOrder ==
    /\ []C9_Inv
    /\ [][C9_Step]_vars
    /\ (Generating ~> pc \in {"Done", "Failed"})

C9_Witness ==
    /\ pc = "Done"
    /\ num_samples = MaxSamples
    /\ Len(saved) = num_samples

\* C10: after successful calls with counts n1..nk on a directory that started
\* empty, the sample files are among those of the indices 1..max(n1..nk),
\* every such index has at least one file, and the number of files lies
\* between max(n1..nk) and 2*max(n1..nk).
C10_RerunBounds ==
    (pc \in {"Idle", "Done"} /\ allOk /\ dir0 = {}) =>
        /\ samples(dir) \subseteq SampleNames(okmax)
        /\ \A k \in 1..okmax : HasSome(dir, k)
        /\ Cardinality(dir) >= okmax
        /\ Cardinality(dir) <= 2 * okmax

=============================================================================
